---- MODULE Spec2Model ----
(***************************************************************************)
(* Model of plugin/evm/atomic_tx_repository.go: the atomic transaction     *)
(* repository, its two indexes (txID => height+tx, height => txs), the     *)
(* progress marker stored under maxIndexedHeightKey, and the resumable     *)
(* migration run by NewAtomicTxRepository.                                 *)
(*                                                                         *)
(* Byte strings are sequences of naturals below 256.  The versioned        *)
(* database is a pair (base, mem): base is the committed key space, mem    *)
(* the writes staged since the last commit.  A key is a pair               *)
(* <<prefix, bytes>>, one prefix per prefixdb.                             *)
(***************************************************************************)
EXTENDS Integers, Sequences, FiniteSets, TLC

\* ------------------------------------------------------------------------
\* Bounds of the model
\* ------------------------------------------------------------------------
\* number of distinct transactions
NumTx == 3
\* heights are 0..MaxHeight
MaxHeight == 1
\* longest transaction list passed to Write
MaxTxs == 2
\* calls of Write in one behaviour
MaxWrites == 2
\* calls of NewAtomicTxRepository in one behaviour of the node with its callers
MaxRuns == 2
\* calls of NewAtomicTxRepository in one behaviour of the start of the node
MaxStarts == 2
\* errors the store reports in one behaviour
MaxFaults == 1
\* number of model bytes that stand for one mebibyte (units.MiB)
MiB == 1

\* ------------------------------------------------------------------------
\* Program constants
\* ------------------------------------------------------------------------
\* wrappers.LongLen: width of a packed uint64
LongLen == 8
\* wrappers.IntLen: width of a packed uint32
IntLen == 4
\* common.HashLength: width of a transaction identifier
HashLength == 32
\* version tag the codec writes in front of every value
codecVersion == 0
commitSizeCap == 10 * MiB

atomicTxIDDBPrefix == "atomicTxDB"
atomicHeightTxDBPrefix == "atomicHeightTxDB"
maxIndexedHeightKey == <<"", <<>>>>

Tx == 1..NumTx
Heights == 0..MaxHeight

\* ------------------------------------------------------------------------
\* Byte strings
\* ------------------------------------------------------------------------
RECURSIVE BigEndian(_, _)
\* v written big-endian on n bytes
BigEndian(v, n) == IF n = 0 THEN <<>> ELSE Append(BigEndian(v \div 256, n - 1), v % 256)

RECURSIVE Uint(_)
\* the big-endian number held by the byte string b
Uint(b) == IF b = <<>> THEN 0 ELSE Uint(SubSeq(b, 1, Len(b) - 1)) * 256 + b[Len(b)]

\* binary.BigEndian.PutUint64 into a buffer of LongLen bytes
PutUint64(v) == BigEndian(v, LongLen)

RECURSIVE BytesLess(_, _)
\* bytes.Compare(a, b) < 0: the key order of the database
BytesLess(a, b) ==
    IF b = <<>> THEN FALSE
    ELSE IF a = <<>> THEN TRUE
    ELSE IF a[1] # b[1] THEN a[1] < b[1]
    ELSE BytesLess(Tail(a), Tail(b))

\* s[from:] of a Go slice (from counted from 0)
SliceFrom(s, from) == SubSeq(s, from + 1, Len(s))
\* s[:to] of a Go slice
SliceTo(s, to) == SubSeq(s, 1, to)

\* ------------------------------------------------------------------------
\* Transactions and the codec
\* ------------------------------------------------------------------------
\* Tx.ID(): the identifier is a hash of the transaction, so the order of
\* the identifiers is not the order of the transactions
ID(t) == [j \in 1..HashLength |-> IF j = HashLength THEN (t * 5) % 7 ELSE 0]

\* size of the serialized body of transaction t
TxBodyLen(t) == 4 - (t % 2)
TxBody(t) == [j \in 1..TxBodyLen(t) |-> t]

\* codec.Marshal(codecVersion, tx)
MarshalTx(t) == BigEndian(codecVersion, 2) \o TxBody(t)

RECURSIVE ParseBodies(_)
\* the transactions whose bodies are concatenated in b; <<0>> marks bytes
\* that are no transaction
ParseBodies(b) ==
    IF b = <<>> THEN <<>>
    ELSE IF b[1] \in Tx /\ Len(b) >= TxBodyLen(b[1]) /\ SliceTo(b, TxBodyLen(b[1])) = TxBody(b[1])
         THEN <<b[1]>> \o ParseBodies(SliceFrom(b, TxBodyLen(b[1])))
         ELSE <<0>>

\* ExtractAtomicTx(txBytes, codec): [err, tx]
ExtractAtomicTx(b) ==
    IF Len(b) > 2 /\ SliceTo(b, 2) = BigEndian(codecVersion, 2)
       /\ Len(ParseBodies(SliceFrom(b, 2))) = 1 /\ ParseBodies(SliceFrom(b, 2))[1] # 0
    THEN [err |-> "nil", tx |-> ParseBodies(SliceFrom(b, 2))[1]]
    ELSE [err |-> "ErrDecode", tx |-> 0]

RECURSIVE Concat(_)
Concat(ss) == IF ss = <<>> THEN <<>> ELSE Head(ss) \o Concat(Tail(ss))

\* codec.Marshal(codecVersion, txs) for a list of transactions
MarshalTxs(txs) ==
    BigEndian(codecVersion, 2) \o BigEndian(Len(txs), IntLen) \o Concat([i \in 1..Len(txs) |-> TxBody(txs[i])])

\* ExtractAtomicTxsBatch(txsBytes, codec): [err, txs]
ExtractAtomicTxsBatch(b) ==
    IF Len(b) >= 2 + IntLen /\ SliceTo(b, 2) = BigEndian(codecVersion, 2)
       /\ \A i \in 1..Len(ParseBodies(SliceFrom(b, 2 + IntLen))) : ParseBodies(SliceFrom(b, 2 + IntLen))[i] # 0
       /\ Len(ParseBodies(SliceFrom(b, 2 + IntLen))) = Uint(SubSeq(b, 3, 2 + IntLen))
    THEN [err |-> "nil", txs |-> ParseBodies(SliceFrom(b, 2 + IntLen))]
    ELSE [err |-> "ErrDecode", txs |-> <<>>]

\* ------------------------------------------------------------------------
\* wrappers.Packer
\* ------------------------------------------------------------------------
\* PackFixedBytes(heightBytes) followed by PackBytes(txBytes)
PackHeightTx(heightBytes, txBytes) == heightBytes \o BigEndian(Len(txBytes), IntLen) \o txBytes

\* Packer.UnpackLong on a value of at least LongLen bytes
UnpackLong(b) == Uint(SliceTo(b, LongLen))

\* Packer.UnpackBytes after UnpackLong: the length-prefixed bytes, nil when
\* the value is too short for them
UnpackBytes(b) ==
    IF Len(b) >= LongLen + IntLen /\ Len(b) >= LongLen + IntLen + Uint(SubSeq(b, LongLen + 1, LongLen + IntLen))
    THEN SubSeq(b, LongLen + IntLen + 1, LongLen + IntLen + Uint(SubSeq(b, LongLen + 1, LongLen + IntLen)))
    ELSE <<>>

\* ------------------------------------------------------------------------
\* The versioned database and its prefixed key spaces
\* ------------------------------------------------------------------------
NoKeys == [k \in {} |-> <<>>]

\* prefixdb.New(prefix, db): the key of the prefixed database in db
PrefixKey(prefix, key) == <<prefix, key>>

\* versiondb.Database.Has
DbHas(m, b, k) == k \in DOMAIN m \/ k \in DOMAIN b
\* versiondb.Database.Get on a key that is present: staged value first
DbGet(m, b, k) == IF k \in DOMAIN m THEN m[k] ELSE b[k]
\* versiondb.Database.Put: the staged writes after the put
DbPut(m, k, v) == (k :> v) @@ m
\* a commit that flushes the staged writes of the by-ID key space only
DbCommitByIDOnly(m, b) ==
    [x \in {k \in DOMAIN m : k[1] = atomicTxIDDBPrefix} |-> m[x]] @@ b

\* versiondb.Database.Commit: the committed key space after the commit
DbCommit(m, b) == m @@ b

\* keys of one prefixed database, as seen through the handle
KeysOf(m, b, prefix) == {k[2] : k \in {x \in (DOMAIN m) \cup (DOMAIN b) : x[1] = prefix}}

RECURSIVE SortKeys(_)
\* the keys of S in the order of the database
SortKeys(S) ==
    IF S = {} THEN <<>>
    ELSE LET least == CHOOSE a \in S : \A c \in S : ~BytesLess(c, a)
         IN <<least>> \o SortKeys(S \ {least})

\* an iterator that starts after its start key
NewIteratorAfterStart(m, b, start) ==
    LET keys == SortKeys({k \in KeysOf(m, b, atomicTxIDDBPrefix) : BytesLess(start, k)})
    IN [i \in 1..Len(keys) |->
          [key |-> keys[i], value |-> DbGet(m, b, PrefixKey(atomicTxIDDBPrefix, keys[i]))]]

\* acceptedAtomicTxDB.NewIteratorWithStart(start): the entries at or after
\* start, in key order; a nil start is the beginning of the key space
NewIteratorWithStart(m, b, start) ==
    LET keys == SortKeys({k \in KeysOf(m, b, atomicTxIDDBPrefix) : ~BytesLess(k, start)})
    IN [i \in 1..Len(keys) |->
          [key |-> keys[i], value |-> DbGet(m, b, PrefixKey(atomicTxIDDBPrefix, keys[i]))]]

\* ------------------------------------------------------------------------
\* State
\* ------------------------------------------------------------------------
VARIABLES
    base,                       \* committed content of the database
    mem,                        \* versiondb: writes staged since the last commit
    pc,                         \* where the process is
    repo,                       \* first result of NewAtomicTxRepository
    ctorErr,                    \* second result of NewAtomicTxRepository
    ret,                        \* outcome of the call that returned last
    lastAcceptedHeight,         \* initialize: its parameter
    lastTxID,                   \* initialize: lastTxID
    iter,                       \* initialize: entries the iterator has left
    pendingBytesApproximation,  \* initialize: pendingBytesApproximation
    began,                      \* initialize: what the run found when it began
    w,                          \* Write: height, txs, position in txs
    hist,                       \* height => txs of the Writes that returned nil
    lastCall,                   \* tx => height of the last Write given the tx
    writesLeft,                 \* calls of Write the behaviour has left
    runsLeft,                   \* calls of NewAtomicTxRepository the behaviour has left
    faultsLeft                  \* errors the store has left to report

vars == <<base, mem, pc, repo, ctorErr, ret, lastAcceptedHeight, lastTxID, iter,
          pendingBytesApproximation, began, w, hist, lastCall, writesLeft, runsLeft, faultsLeft>>

initVars == <<lastAcceptedHeight, lastTxID, iter, pendingBytesApproximation, began>>
histVars == <<hist, lastCall>>
budgetVars == <<writesLeft, runsLeft>>

\* the store reports the error fault, "none" when it reports none
Fault(fault) ==
    /\ fault # "none" => faultsLeft > 0
    /\ faultsLeft' = IF fault = "none" THEN faultsLeft ELSE faultsLeft - 1

NoRet == [op |-> "none", err |-> "nil", migrated |-> FALSE, iterErr |-> FALSE,
          entry |-> <<>>, height |-> 0, txs |-> <<>>, began |-> "none"]
NoWrite == [height |-> 0, txs |-> <<>>, idx |-> 0]
NoHist == [h \in {} |-> <<>>]
NoCall == [t \in Tx |-> -1]

\* by-ID value written by the version that had no height index
LegacyValue(t, h) == PackHeightTx(PutUint64(h), MarshalTx(t))
\* by-ID values no version of the repository writes
ShortValue == <<0, 0, 1>>
UndecodableValue(h) == PackHeightTx(PutUint64(h), <<9, 9, 9>>)

\* the by-ID key spaces a database can hold before the first migration
LegacyStores ==
    UNION {
      { [k \in {PrefixKey(atomicTxIDDBPrefix, ID(t)) : t \in S} |->
            LET t == CHOOSE x \in S : ID(x) = k[2]
            IN IF t = bad THEN (IF f[t] = 0 THEN ShortValue ELSE UndecodableValue(f[t]))
               ELSE LegacyValue(t, f[t])]
        : f \in [S -> Heights], bad \in {0} \cup S }
      : S \in SUBSET Tx }

\* marker values found at the first construction: absent, or a value of a
\* length that is neither LongLen nor HashLength
CorruptMarker == [k \in {maxIndexedHeightKey} |-> <<0, 0, 1>>]

\* the databases found at the first construction
InitialStores ==
    LegacyStores \cup {DbCommit(CorruptMarker, [k \in {PrefixKey(atomicTxIDDBPrefix, ID(1))} |-> LegacyValue(1, 1)])}

\* a database written only by the version that had no height index, and the
\* database of a new node
UpgradedStore ==
    [k \in {PrefixKey(atomicTxIDDBPrefix, ID(t)) : t \in Tx} |->
        LET t == CHOOSE x \in Tx : ID(x) = k[2]
        IN LegacyValue(t, IF t = NumTx THEN MaxHeight ELSE 1)]

Start(stores, runs, writes, faults) ==
    /\ base \in stores
    /\ mem = NoKeys
    /\ pc = "down"
    /\ repo = "nil"
    /\ ctorErr = "nil"
    /\ ret = NoRet
    /\ lastAcceptedHeight = 0
    /\ lastTxID = <<>>
    /\ iter = <<>>
    /\ pendingBytesApproximation = 0
    /\ began = "none"
    /\ w = NoWrite
    /\ hist = NoHist
    /\ lastCall = NoCall
    /\ writesLeft = writes
    /\ runsLeft = runs
    /\ faultsLeft = faults

\* a node that starts on a new or on an upgraded database
Init == Start({NoKeys, UpgradedStore}, MaxRuns, MaxWrites, MaxFaults)

\* a node that starts on any database of the previous version
InitMigration == Start(InitialStores, MaxStarts, 0, MaxFaults)

\* ------------------------------------------------------------------------
\* NewAtomicTxRepository and initialize
\* ------------------------------------------------------------------------
\* the switch without its case for a marker of LongLen bytes
MarkerCaseNoDone(found, indexHeightBytes) ==
    IF ~found \/ Len(indexHeightBytes) = LongLen THEN "fresh"
    ELSE IF Len(indexHeightBytes) = HashLength THEN "resume"
    ELSE "corrupt"

\* the switch whose default case starts from scratch
MarkerCaseNoDefault(found, indexHeightBytes) ==
    IF ~found THEN "fresh"
    ELSE IF Len(indexHeightBytes) = LongLen THEN "done"
    ELSE IF Len(indexHeightBytes) = HashLength THEN "resume"
    ELSE "fresh"

\* the switch that takes a marker of LongLen bytes for a cursor
MarkerCaseDoneIsCursor(found, indexHeightBytes) ==
    IF ~found THEN "fresh"
    ELSE IF Len(indexHeightBytes) \in {LongLen, HashLength} THEN "resume"
    ELSE "corrupt"

\* the switch on the marker read by initialize
MarkerCase(found, indexHeightBytes) ==
    IF ~found THEN "fresh"
    ELSE IF Len(indexHeightBytes) = LongLen THEN "done"
    ELSE IF Len(indexHeightBytes) = HashLength THEN "resume"
    ELSE "corrupt"

\* NewAtomicTxRepository returns repo together with the error of initialize
NewResult(err) == "repo"

\* initialize returns err: the constructor returns to its caller
InitReturn(height, err, migrated, iterErr, entry) ==
    /\ pc' = "idle"
    /\ repo' = NewResult(err)
    /\ ctorErr' = err
    /\ ret' = [NoRet EXCEPT !.op = "New", !.err = err, !.migrated = migrated,
                            !.iterErr = iterErr, !.entry = entry,
                            !.height = height, !.began = began]
    /\ lastAcceptedHeight' = 0
    /\ lastTxID' = <<>>
    /\ iter' = <<>>
    /\ pendingBytesApproximation' = 0
    /\ began' = "none"
    /\ w' = NoWrite
    /\ hist' = NoHist
    /\ lastCall' = NoCall
    /\ UNCHANGED writesLeft

\* NewAtomicTxRepository(db, codec, height) up to the creation of the iterator
New(height, getErr) ==
    /\ pc \in {"down", "idle"}
    /\ runsLeft > 0
    /\ runsLeft' = runsLeft - 1
    /\ Fault(IF getErr THEN "get" ELSE "none")
    /\ LET found == DbHas(mem, base, maxIndexedHeightKey)
           indexHeightBytes == IF found THEN DbGet(mem, base, maxIndexedHeightKey) ELSE <<>>
           case == MarkerCase(found, indexHeightBytes)
       IN IF getErr THEN /\ InitReturn(height, "ErrGet", FALSE, FALSE, <<>>)
                         /\ UNCHANGED <<base, mem>>
          ELSE IF case = "done" THEN /\ InitReturn(height, "nil", FALSE, FALSE, <<>>)
                                      /\ UNCHANGED <<base, mem>>
          ELSE IF case = "corrupt" THEN /\ InitReturn(height, "ErrInvalidMarker", FALSE, FALSE, <<>>)
                                         /\ UNCHANGED <<base, mem>>
          ELSE /\ pc' = "migrating"
               /\ lastAcceptedHeight' = height
               /\ lastTxID' = IF case = "resume" THEN indexHeightBytes ELSE <<>>
               /\ began' = IF case = "resume" THEN "cursor"
                           ELSE IF KeysOf(mem, base, atomicHeightTxDBPrefix) = {} THEN "empty"
                           ELSE "fresh"
               /\ iter' = NewIteratorWithStart(mem, base, lastTxID')
               /\ pendingBytesApproximation' = 0
               /\ repo' = "nil"
               /\ ctorErr' = "nil"
               /\ ret' = NoRet
               /\ w' = NoWrite
               /\ hist' = NoHist
               /\ lastCall' = NoCall
               /\ UNCHANGED <<base, mem, writesLeft>>

\* getByHeightBytes(heightBytes): [err, txs]
getByHeightBytes(m, b, heightBytes) ==
    IF ~DbHas(m, b, PrefixKey(atomicHeightTxDBPrefix, heightBytes))
    THEN [err |-> "ErrNotFound", txs |-> <<>>]
    ELSE ExtractAtomicTxsBatch(DbGet(m, b, PrefixKey(atomicHeightTxDBPrefix, heightBytes)))

\* indexTxsAtHeight that appends txs to the list the height already has
indexTxsAtHeightMerge(m, heightBytes, txs) ==
    DbPut(m, PrefixKey(atomicHeightTxDBPrefix, heightBytes),
          MarshalTxs(getByHeightBytes(m, base, heightBytes).txs \o txs))

\* indexTxsAtHeight that puts under the key of a zeroed height buffer
indexTxsAtHeightZeroKey(m, heightBytes, txs) ==
    DbPut(m, PrefixKey(atomicHeightTxDBPrefix, PutUint64(0)), MarshalTxs(txs))

\* indexTxsAtHeight(heightBytes, txs): the staged writes after its put
indexTxsAtHeight(m, heightBytes, txs) ==
    DbPut(m, PrefixKey(atomicHeightTxDBPrefix, heightBytes), MarshalTxs(txs))

\* the list with the transaction put in front of the ones of the record
MergedTxsInFront(txs, tx) == <<tx>> \o txs

\* the list addTxToHeightIndex writes for tx, given the list txs it read:
\* the scan for an equal identifier returns nothing, tx is always appended
MergedTxs(txs, tx) == Append(txs, tx)

\* addTxToHeightIndex(heightBytes, tx): [err, mem]
addTxToHeightIndex(m, b, heightBytes, tx) ==
    LET got == getByHeightBytes(m, b, heightBytes)
    IN IF got.err \notin {"nil", "ErrNotFound"} THEN [err |-> got.err, mem |-> m]
       ELSE [err |-> "nil", mem |-> indexTxsAtHeight(m, heightBytes, MergedTxs(got.txs, tx))]

\* the test written with >= in place of >
CheckpointDueAtCap(pending) == pending >= commitSizeCap

\* the test of the pending size against commitSizeCap
CheckpointDue(pending) == pending > commitSizeCap

\* the value is long enough for iterValue[:LongLen] and
\* iterValue[LongLen+IntLen:]; a shorter one makes the slice expressions panic
SlicesInRange(iterValue) == Len(iterValue) >= LongLen + IntLen

\* the process dies in the constructor
Panic(entry) ==
    /\ pc' = "down"
    /\ repo' = "nil"
    /\ ctorErr' = "panic"
    /\ ret' = [NoRet EXCEPT !.op = "New", !.err = "panic", !.migrated = TRUE,
                            !.entry = entry, !.height = lastAcceptedHeight, !.began = began]
    /\ mem' = NoKeys
    /\ lastAcceptedHeight' = 0
    /\ lastTxID' = <<>>
    /\ iter' = <<>>
    /\ pendingBytesApproximation' = 0
    /\ began' = "none"
    /\ UNCHANGED <<base, w, hist, lastCall, writesLeft, runsLeft>>

\* one pass of the loop of initialize: iter.Next() returned true
ProcessEntry(fault) ==
    /\ pc = "migrating"
    /\ iter # <<>>
    /\ Fault(fault)
    /\ LET iterValue == Head(iter).value
       IN IF ~SlicesInRange(iterValue) THEN Panic(iterValue)
          ELSE
          LET heightBytes == SliceTo(iterValue, LongLen)
              txBytes == SliceFrom(iterValue, LongLen + IntLen)
              ex == ExtractAtomicTx(txBytes)
              added == addTxToHeightIndex(mem, base, heightBytes, ex.tx)
              pending == pendingBytesApproximation + Len(txBytes)
              marked == DbPut(added.mem, maxIndexedHeightKey, ID(ex.tx))
          IN /\ UNCHANGED runsLeft
             /\ IF ex.err # "nil"
                THEN InitReturn(lastAcceptedHeight, ex.err, TRUE, FALSE, iterValue) /\ UNCHANGED <<base, mem>>
                ELSE IF added.err # "nil"
                THEN InitReturn(lastAcceptedHeight, added.err, TRUE, FALSE, iterValue) /\ UNCHANGED <<base, mem>>
                ELSE IF fault = "put"
                THEN InitReturn(lastAcceptedHeight, "ErrPut", TRUE, FALSE, iterValue) /\ UNCHANGED <<base, mem>>
                ELSE IF ~CheckpointDue(pending)
                THEN /\ mem' = added.mem
                     /\ lastTxID' = ID(ex.tx)
                     /\ pendingBytesApproximation' = pending
                     /\ iter' = Tail(iter)
                     /\ UNCHANGED <<base, pc, repo, ctorErr, ret, began, w, hist, lastCall, writesLeft, lastAcceptedHeight>>
                ELSE IF fault = "commit"
                THEN /\ InitReturn(lastAcceptedHeight, "ErrCommit", TRUE, FALSE, iterValue)
                     /\ mem' = marked
                     /\ UNCHANGED base
                ELSE /\ base' = DbCommit(marked, base)
                     /\ mem' = NoKeys
                     /\ lastTxID' = ID(ex.tx)
                     /\ pendingBytesApproximation' = 0
                     /\ iter' = Tail(iter)
                     /\ UNCHANGED <<pc, repo, ctorErr, ret, began, w, hist, lastCall, writesLeft, lastAcceptedHeight>>

\* the end of initialize without the commit of the versioned database: the
\* marker of LongLen bytes stays staged
CompleteStaged(fault) ==
    /\ pc = "migrating"
    /\ iter = <<>> \/ fault = "iter"
    /\ Fault(fault)
    /\ UNCHANGED runsLeft
    /\ InitReturn(lastAcceptedHeight, "nil", TRUE, fault = "iter", <<>>)
    /\ mem' = DbPut(mem, maxIndexedHeightKey, PutUint64(lastAcceptedHeight))
    /\ UNCHANGED base

\* the end of the loop of initialize: iter.Next() returned false, because the
\* iterator is exhausted or because it met an error; the error of the
\* iterator is read only inside the loop
Complete(fault) ==
    /\ pc = "migrating"
    /\ iter = <<>> \/ fault = "iter"
    /\ Fault(fault)
    /\ UNCHANGED runsLeft
    /\ LET indexedHeight == PutUint64(lastAcceptedHeight)
           marked == DbPut(mem, maxIndexedHeightKey, indexedHeight)
       IN IF fault = "put"
          THEN InitReturn(lastAcceptedHeight, "ErrPut", TRUE, FALSE, <<>>) /\ UNCHANGED <<base, mem>>
          ELSE IF fault = "commit"
          THEN InitReturn(lastAcceptedHeight, "ErrCommit", TRUE, FALSE, <<>>) /\ mem' = marked /\ UNCHANGED base
          ELSE /\ InitReturn(lastAcceptedHeight, "nil", TRUE, fault = "iter", <<>>)
               /\ base' = DbCommit(marked, base)
               /\ mem' = NoKeys

\* the process stops: the staged writes are lost
Crash ==
    /\ pc # "down"
    /\ pc' = "down"
    /\ mem' = NoKeys
    /\ repo' = "nil"
    /\ ctorErr' = "nil"
    /\ ret' = [NoRet EXCEPT !.op = "Crash"]
    /\ lastTxID' = <<>>
    /\ iter' = <<>>
    /\ pendingBytesApproximation' = 0
    /\ began' = "none"
    /\ w' = NoWrite
    /\ hist' = NoHist
    /\ lastCall' = NoCall
    /\ lastAcceptedHeight' = 0
    /\ UNCHANGED <<base, runsLeft, writesLeft, faultsLeft>>

\* ------------------------------------------------------------------------
\* Write
\* ------------------------------------------------------------------------
\* the transaction lists a caller passes to Write
TxLists == UNION {[1..n -> Tx] : n \in 0..MaxTxs}

\* indexTxByID with PackBytes replaced by PackFixedBytes: no length prefix
indexTxByIDNoLength(m, heightBytes, tx) ==
    DbPut(m, PrefixKey(atomicTxIDDBPrefix, ID(tx)), heightBytes \o MarshalTx(tx))

\* indexTxByID that also puts the marker
indexTxByIDWithMarker(m, heightBytes, tx) ==
    DbPut(DbPut(m, maxIndexedHeightKey, heightBytes),
          PrefixKey(atomicTxIDDBPrefix, ID(tx)), PackHeightTx(heightBytes, MarshalTx(tx)))

\* indexTxByID that packs a zeroed height buffer instead of heightBytes
indexTxByIDZeroHeight(m, heightBytes, tx) ==
    DbPut(m, PrefixKey(atomicTxIDDBPrefix, ID(tx)), PackHeightTx(PutUint64(0), MarshalTx(tx)))

\* indexTxByID(heightBytes, tx): the staged writes after its put
indexTxByID(m, heightBytes, tx) ==
    DbPut(m, PrefixKey(atomicTxIDDBPrefix, ID(tx)), PackHeightTx(heightBytes, MarshalTx(tx)))

\* the marker of Write packed as a uint32
WriteMarkerValueInt(heightBytes) == SliceFrom(heightBytes, LongLen - IntLen)

\* the value Write puts under maxIndexedHeightKey
WriteMarkerValue(heightBytes) == heightBytes

\* Write returns err to its caller
WriteReturn(err) ==
    /\ pc' = "idle"
    /\ ret' = [NoRet EXCEPT !.op = "Write", !.err = err, !.height = w.height, !.txs = w.txs]
    /\ hist' = IF err = "nil" /\ ctorErr = "nil"
               THEN [h \in (DOMAIN hist) \cup {w.height} |-> IF h = w.height THEN w.txs ELSE hist[h]]
               ELSE hist
    /\ w' = NoWrite
    /\ UNCHANGED <<base, repo, ctorErr, initVars, lastCall, writesLeft, runsLeft>>

\* Write(height, txs) is called on the repository the constructor returned
Write(height, txs) ==
    /\ pc = "idle"
    /\ repo = "repo"
    /\ writesLeft > 0
    /\ writesLeft' = writesLeft - 1
    /\ pc' = "writing"
    /\ w' = [height |-> height, txs |-> txs, idx |-> 1]
    /\ hist' = [h \in (DOMAIN hist) \ {height} |-> hist[h]]
    /\ lastCall' = [t \in Tx |-> IF \E i \in 1..Len(txs) : txs[i] = t THEN height ELSE lastCall[t]]
    /\ UNCHANGED <<base, mem, repo, ctorErr, ret, initVars, runsLeft, faultsLeft>>

\* one pass of the loop of Write: indexTxByID for the next transaction
WriteIndexTx(fault) ==
    /\ pc = "writing"
    /\ Fault(fault)
    /\ w.idx <= Len(w.txs)
    /\ IF fault = "put"
       THEN WriteReturn("ErrPut") /\ UNCHANGED mem
       ELSE /\ mem' = indexTxByID(mem, PutUint64(w.height), w.txs[w.idx])
            /\ w' = [w EXCEPT !.idx = @ + 1]
            /\ UNCHANGED <<base, pc, repo, ctorErr, ret, initVars, histVars, runsLeft, writesLeft>>

\* Write after its loop: indexTxsAtHeight for the whole list
WriteIndexHeight(fault) ==
    /\ pc = "writing"
    /\ Fault(fault)
    /\ w.idx = Len(w.txs) + 1
    /\ IF fault = "put"
       THEN WriteReturn("ErrPut") /\ UNCHANGED mem
       ELSE /\ mem' = indexTxsAtHeight(mem, PutUint64(w.height), w.txs)
            /\ w' = [w EXCEPT !.idx = @ + 1]
            /\ UNCHANGED <<base, pc, repo, ctorErr, ret, initVars, histVars, runsLeft, writesLeft>>

\* the last statement of Write: the put of the marker, whose error is returned
WriteMarker(fault) ==
    /\ pc = "writing"
    /\ Fault(fault)
    /\ w.idx = Len(w.txs) + 2
    /\ IF fault = "put"
       THEN WriteReturn("ErrPut") /\ UNCHANGED mem
       ELSE /\ WriteReturn("nil")
            /\ mem' = DbPut(mem, maxIndexedHeightKey, WriteMarkerValue(PutUint64(w.height)))

\* the caller of the repository commits the versioned database
Commit ==
    /\ pc = "idle"
    /\ repo = "repo"
    /\ mem # NoKeys
    /\ base' = DbCommit(mem, base)
    /\ mem' = NoKeys
    /\ ret' = [NoRet EXCEPT !.op = "Commit"]
    /\ UNCHANGED <<pc, repo, ctorErr, initVars, w, histVars, runsLeft, writesLeft, faultsLeft>>

\* ------------------------------------------------------------------------
\* Reads
\* ------------------------------------------------------------------------
\* GetByTxID that reports a value shorter than LongLen as a missing record
GetByTxIDShortIsNotFound(m, b, txID) ==
    IF ~DbHas(m, b, PrefixKey(atomicTxIDDBPrefix, txID)) \/ Len(DbGet(m, b, PrefixKey(atomicTxIDDBPrefix, txID))) < LongLen
    THEN [err |-> "ErrNotFound", tx |-> 0, height |-> 0]
    ELSE LET ex == ExtractAtomicTx(UnpackBytes(DbGet(m, b, PrefixKey(atomicTxIDDBPrefix, txID))))
         IN IF ex.err # "nil" THEN [err |-> ex.err, tx |-> 0, height |-> 0]
            ELSE [err |-> "nil", tx |-> ex.tx, height |-> UnpackLong(DbGet(m, b, PrefixKey(atomicTxIDDBPrefix, txID)))]

\* GetByTxID(txID): [err, tx, height]
GetByTxID(m, b, txID) ==
    IF ~DbHas(m, b, PrefixKey(atomicTxIDDBPrefix, txID))
    THEN [err |-> "ErrNotFound", tx |-> 0, height |-> 0]
    ELSE LET indexedTxBytes == DbGet(m, b, PrefixKey(atomicTxIDDBPrefix, txID))
         IN IF Len(indexedTxBytes) < LongLen
            THEN [err |-> "ErrTooShort", tx |-> 0, height |-> 0]
            ELSE LET ex == ExtractAtomicTx(UnpackBytes(indexedTxBytes))
                 IN IF ex.err # "nil" THEN [err |-> ex.err, tx |-> 0, height |-> 0]
                    ELSE [err |-> "nil", tx |-> ex.tx, height |-> UnpackLong(indexedTxBytes)]

\* GetByHeight(height): [err, txs]
GetByHeight(m, b, height) == getByHeightBytes(m, b, PutUint64(height))

\* a caller calls GetByTxID(ID(t)); the Get of the store can report an error
CallGetByTxID(t, fault) ==
    /\ pc = "idle"
    /\ repo = "repo"
    /\ Fault(fault)
    /\ LET got == IF fault = "get" THEN [err |-> "ErrGet", tx |-> 0, height |-> 0]
                  ELSE GetByTxID(mem, base, ID(t))
       IN ret' = [NoRet EXCEPT !.op = "GetByTxID", !.err = got.err, !.entry = ID(t),
                               !.txs = IF got.tx = 0 THEN <<>> ELSE <<got.tx>>,
                               !.height = got.height]
    /\ UNCHANGED <<base, mem, pc, repo, ctorErr, initVars, w, histVars, budgetVars>>

\* a caller calls GetByHeight(height)
CallGetByHeight(height, fault) ==
    /\ pc = "idle"
    /\ repo = "repo"
    /\ Fault(fault)
    /\ LET got == IF fault = "get" THEN [err |-> "ErrGet", txs |-> <<>>]
                  ELSE GetByHeight(mem, base, height)
       IN ret' = [NoRet EXCEPT !.op = "GetByHeight", !.err = got.err, !.txs = got.txs, !.height = height]
    /\ UNCHANGED <<base, mem, pc, repo, ctorErr, initVars, w, histVars, budgetVars>>

\* by-height records a database can hold: lists the codec wrote, and bytes
\* the codec does not decode
HeightRecords ==
    UNION { [{PrefixKey(atomicHeightTxDBPrefix, PutUint64(h)) : h \in H} -> {MarshalTxs(<<1>>), <<9, 9>>}]
            : H \in SUBSET Heights }

\* by-ID records a database can hold: records of one height, of which one
\* can be too short or hold bytes the codec does not decode
IDRecords ==
    UNION {
      { [k \in {PrefixKey(atomicTxIDDBPrefix, ID(t)) : t \in S} |->
            LET t == CHOOSE x \in S : ID(x) = k[2]
            IN IF t = bad THEN (IF h = 0 THEN ShortValue ELSE UndecodableValue(h))
               ELSE LegacyValue(t, h)]
        : h \in {0, MaxHeight}, bad \in {0} \cup S }
      : S \in SUBSET Tx }

\* databases whose migration is done, with any by-ID and by-height records
IndexedStores ==
    { DbCommit([k \in {maxIndexedHeightKey} |-> PutUint64(0)], DbCommit(byHeight, byID))
      : byID \in IDRecords, byHeight \in HeightRecords }

InitReads == Start(IndexedStores, 1, 0, MaxFaults)

NextReads ==
    \/ \E height \in Heights : New(height, FALSE)
    \/ \E t \in Tx, fault \in {"none", "get"} : CallGetByTxID(t, fault)
    \/ \E height \in Heights, fault \in {"none", "get"} : CallGetByHeight(height, fault)

\* the reads of a constructed repository over any indexed database
SpecReads == InitReads /\ [][NextReads]_vars

Next ==
    \/ \E height \in Heights, getErr \in BOOLEAN : New(height, getErr)
    \/ \E height \in Heights, txs \in TxLists : Write(height, txs)
    \/ \E fault \in {"none", "put"} : WriteIndexTx(fault)
    \/ \E fault \in {"none", "put"} : WriteIndexHeight(fault)
    \/ \E fault \in {"none", "put"} : WriteMarker(fault)
    \/ Commit
    \/ \E fault \in {"none", "put", "commit"} : ProcessEntry(fault)
    \/ \E fault \in {"none", "iter", "put", "commit"} : Complete(fault)
    \/ Crash

\* the node with its callers: construction, Write, commits, crashes
Spec == Init /\ [][Next]_vars

\* the start of the node alone: construction, crash and restart
NextMigration ==
    \/ \E height \in Heights, getErr \in BOOLEAN : New(height, getErr)
    \/ \E fault \in {"none", "put", "commit"} : ProcessEntry(fault)
    \/ \E fault \in {"none", "iter", "put", "commit"} : Complete(fault)
    \/ Crash

SpecMigration == InitMigration /\ [][NextMigration]_vars

\* a new node whose store reports no error
InitContract == Start({NoKeys}, 1, MaxWrites, 0)

\* the lists the contract of Write allows ("txs must include all atomic txs
\* for the block"): distinct transactions that no earlier Write was given
ContractLists ==
    {txs \in TxLists : /\ \A i \in 1..Len(txs) : lastCall[txs[i]] = -1
                       /\ \A i, j \in 1..Len(txs) : txs[i] = txs[j] => i = j}

\* one construction, then Writes that obey the contract of Write ("must be
\* called only once per height"), and the commits of the caller
NextContract ==
    \/ \E height \in Heights : New(height, FALSE)
    \/ Complete("none")
    \/ \E height \in Heights \ DOMAIN hist, txs \in ContractLists : Write(height, txs)
    \/ WriteIndexTx("none")
    \/ WriteIndexHeight("none")
    \/ WriteMarker("none")
    \/ Commit

SpecContract == InitContract /\ [][NextContract]_vars

\* the databases of the previous version whose by-ID records all decode
WellFormedStores ==
    {s \in LegacyStores :
        \A k \in DOMAIN s : /\ Len(s[k]) >= LongLen + IntLen
                            /\ ExtractAtomicTx(SliceFrom(s[k], LongLen + IntLen)).err = "nil"}

\* a node that starts on such a database, with a store that reports no error
InitLive == Start(WellFormedStores, MaxStarts, 1, 0)

\* a process stop after which the node is started again
CrashThenRestart == runsLeft > 0 /\ Crash

\* construction, crash and restart, then the Write of one transaction and
\* the caller's commits
NextLive ==
    \/ \E height \in Heights : New(height, FALSE)
    \/ ProcessEntry("none")
    \/ Complete("none")
    \/ CrashThenRestart
    \/ \E height \in Heights, t \in Tx : Write(height, <<t>>)
    \/ WriteIndexTx("none")
    \/ WriteIndexHeight("none")
    \/ WriteMarker("none")
    \/ Commit

\* the step of ProcessEntry when the store reports no error and the
\* record decodes: the loop goes on with the entries after the first
LoopPass == pc = "migrating" /\ iter # <<>> /\ pc' = "migrating" /\ iter' = Tail(iter)

\* the step of New on a node that is down
Restart == pc = "down" /\ runsLeft > 0 /\ pc' \in {"migrating", "idle"}

\* the constructor runs to its return unless the process stops (the loop of
\* initialize and the statements after it are sequential code), and a node
\* that is down is started again; the process stops finitely often
SpecLive ==
    /\ InitLive
    /\ [][NextLive]_vars
    /\ WF_iter(LoopPass)
    /\ WF_vars(Complete("none"))
    /\ WF_pc(Restart)

\* ------------------------------------------------------------------------
\* Properties
\* ------------------------------------------------------------------------
IDsOf(txs) == {ID(txs[i]) : i \in 1..Len(txs)}
Distinct(txs) == \A i, j \in 1..Len(txs) : txs[i] = txs[j] => i = j
MarkerFound(m, b) == DbHas(m, b, maxIndexedHeightKey)
Marker(m, b) == DbGet(m, b, maxIndexedHeightKey)

\* C1: on a repository whose construction succeeded, once Write(h, T) has
\* returned nil for a list T of distinct transactions, GetByHeight(h) returns
\* a list with the identifiers of T, and GetByTxID returns (tx, h) for every
\* tx of T that no later Write was given at another height; hist holds the
\* lists of the Writes that returned nil on this repository and loses h when
\* Write is called again for h, lastCall the height of the last Write given tx
RoundTrip ==
    \A h \in DOMAIN hist :
        Distinct(hist[h]) =>
            /\ GetByHeight(mem, base, h).err = "nil"
            /\ IDsOf(GetByHeight(mem, base, h).txs) = IDsOf(hist[h])
            /\ \A i \in 1..Len(hist[h]) :
                  lastCall[hist[h][i]] = h =>
                      GetByTxID(mem, base, ID(hist[h][i])) = [err |-> "nil", tx |-> hist[h][i], height |-> h]

\* two distinct transactions were written at one height, and a later Write at
\* another height has returned
RoundTripWitness ==
    /\ ret.op = "Write" /\ ret.err = "nil" /\ pc = "idle"
    /\ \E h \in DOMAIN hist : h # ret.height /\ Len(hist[h]) = 2 /\ Distinct(hist[h])
                              /\ \A i \in 1..2 : lastCall[hist[h][i]] = h

\* C2: right after a Write(h, T) that returned nil the marker is the 8-byte
\* big-endian encoding of h, and right after a construction that ran a
\* migration and returned nil the marker, staged and committed, is the 8-byte
\* encoding of the lastAcceptedHeight given to the constructor
MarkerValue ==
    /\ (ret.op = "Write" /\ ret.err = "nil") =>
          MarkerFound(mem, base) /\ Marker(mem, base) = BigEndian(ret.height, 8)
    /\ (ret.op = "New" /\ ret.err = "nil" /\ ret.migrated) =>
          /\ MarkerFound(mem, base) /\ Marker(mem, base) = BigEndian(ret.height, 8)
          /\ MarkerFound(NoKeys, base) /\ Marker(NoKeys, base) = BigEndian(ret.height, 8)

\* a migration over records of height MaxHeight has committed the marker of
\* lastAcceptedHeight 0, and a Write at height MaxHeight returned nil after it
MarkerValueWitness ==
    /\ ret.op = "Write" /\ ret.err = "nil" /\ ret.height = MaxHeight /\ Len(ret.txs) > 0
    /\ MarkerFound(NoKeys, base) /\ Marker(NoKeys, base) = BigEndian(0, 8)
    /\ KeysOf(NoKeys, base, atomicHeightTxDBPrefix) # {}
    /\ \E t \in Tx : GetByTxID(NoKeys, base, ID(t)).err = "nil" /\ GetByTxID(NoKeys, base, ID(t)).height = MaxHeight

\* the height index as seen through the handle
HeightIndex(m, b) ==
    [k \in {x \in (DOMAIN m) \cup (DOMAIN b) : x[1] = atomicHeightTxDBPrefix} |-> DbGet(m, b, k)]

RECURSIVE MigrateEntries(_, _)
\* the staged writes of the loop of initialize over entries, without checkpoint
MigrateEntries(entries, m) ==
    IF entries = <<>> THEN m
    ELSE MigrateEntries(Tail(entries),
             addTxToHeightIndex(m, NoKeys, SliceTo(Head(entries).value, LongLen),
                 ExtractAtomicTx(SliceFrom(Head(entries).value, LongLen + IntLen)).tx).mem)

\* the height index of one uninterrupted migration over the by-ID records
UninterruptedIndex == MigrateEntries(NewIteratorWithStart(mem, base, <<>>), NoKeys)

\* every by-ID record decodes
WellFormed(m, b) == \A id \in KeysOf(m, b, atomicTxIDDBPrefix) : GetByTxID(m, b, id).err = "nil"

\* the transactions whose by-ID record holds height h
TxsAt(m, b, h) == {t \in Tx : GetByTxID(m, b, ID(t)).err = "nil" /\ GetByTxID(m, b, ID(t)).height = h}

\* the store has reported no error since the node first started
NoStoreError == faultsLeft = MaxFaults

\* C3: when the store reports no error and a migration that was resumed from
\* the cursor of a checkpoint completes, the height index equals the one of a
\* single uninterrupted migration over the same by-ID records
Resumability ==
    (NoStoreError /\ ret.op = "New" /\ ret.err = "nil" /\ ret.migrated /\ ret.began = "cursor")
        => HeightIndex(mem, base) = UninterruptedIndex

\* C4: no by-height record holds the same transaction identifier twice (the
\* by-ID records being well-formed and the store reporting no error)
NoDuplicateIDs ==
    (NoStoreError /\ WellFormed(mem, base)) =>
        \A h \in Heights : GetByHeight(mem, base, h).err = "nil" => Distinct(GetByHeight(mem, base, h).txs)

\* C5: a construction that found well-formed by-ID records, no by-height
\* record and no marker, and returned nil, leaves for every height of a by-ID
\* record a by-height record with exactly the identifiers of that height,
\* each once, committed together with a marker of 8 bytes
FreshBackfill ==
    (ret.op = "New" /\ ret.err = "nil" /\ ret.migrated /\ ret.began = "empty" /\ WellFormed(mem, base))
        => /\ mem = NoKeys
           /\ MarkerFound(NoKeys, base) /\ Len(Marker(NoKeys, base)) = 8
           /\ \A h \in Heights :
                 TxsAt(NoKeys, base, h) # {} =>
                     /\ GetByHeight(NoKeys, base, h).err = "nil"
                     /\ IDsOf(GetByHeight(NoKeys, base, h).txs) = {ID(t) : t \in TxsAt(NoKeys, base, h)}
                     /\ Len(GetByHeight(NoKeys, base, h).txs) = Cardinality(TxsAt(NoKeys, base, h))

\* a step of NewAtomicTxRepository that read the marker without error
NewStep == pc \in {"down", "idle"} /\ runsLeft' = runsLeft - 1 /\ faultsLeft' = faultsLeft

\* C6: a construction that reads a marker of 8 bytes returns nil and changes
\* neither the staged nor the committed content of the store, whatever
\* lastAcceptedHeight it is given
NoOpWhenDone ==
    [][(NewStep /\ MarkerFound(mem, base) /\ Len(Marker(mem, base)) = 8)
          => (pc' = "idle" /\ ret'.op = "New" /\ ret'.err = "nil" /\ ~ret'.migrated
              /\ base' = base /\ mem' = mem)]_vars

\* a construction found the marker of 8 bytes among staged writes and was
\* given another height than the marker holds
NoOpWhenDoneWitness ==
    /\ ret.op = "New" /\ ret.err = "nil" /\ ~ret.migrated /\ pc = "idle"
    /\ maxIndexedHeightKey \in DOMAIN mem /\ Marker(mem, base) # BigEndian(ret.height, 8)
    /\ KeysOf(mem, NoKeys, atomicTxIDDBPrefix) # {}

\* C7: a construction that reads a marker whose length is neither 8 nor 32
\* returns an error, starts no iteration and changes nothing in the store
CorruptMarkerFails ==
    [][(NewStep /\ MarkerFound(mem, base) /\ Len(Marker(mem, base)) \notin {8, 32})
          => (pc' = "idle" /\ ret'.op = "New" /\ ret'.err = "ErrInvalidMarker" /\ ~ret'.migrated
              /\ iter' = <<>> /\ base' = base /\ mem' = mem)]_vars

\* a construction has returned the error of the corrupt marker, the by-ID
\* index holds a record and the height index is still empty
CorruptMarkerFailsWitness ==
    /\ ret.op = "New" /\ ret.err = "ErrInvalidMarker"
    /\ KeysOf(mem, base, atomicTxIDDBPrefix) # {}
    /\ KeysOf(mem, base, atomicHeightTxDBPrefix) = {}
    /\ MarkerFound(mem, base) /\ Len(Marker(mem, base)) \notin {8, 32}

\* C8: when the constructor returns an error it returns no repository
FailedConstructionNoRepo ==
    (pc = "idle" /\ ctorErr # "nil") => repo = "nil"

\* C9: when the iterator of the migration stopped on an error, the
\* constructor returns an error and the marker of 8 bytes is not committed
IteratorErrorReturned ==
    (ret.op = "New" /\ ret.iterErr)
        => (ret.err # "nil" /\ ~(MarkerFound(NoKeys, base) /\ Len(Marker(NoKeys, base)) = 8))

\* the by-ID value is too short for its two prefixes, or its payload does
\* not decode
Malformed(value) ==
    \/ Len(value) < 8 + 4
    \/ ExtractAtomicTx(SliceFrom(value, 8 + 4)).err # "nil"

\* C10: when the migration meets a malformed by-ID value, the constructor
\* returns a decode error to its caller: the process does not panic
MalformedIsError ==
    (ret.op = "New" /\ ret.entry # <<>> /\ Malformed(ret.entry)) => ret.err = "ErrDecode"

\* FreshBackfill for the constructions whose iterator reported no error
FreshBackfillNoIteratorError == ret.iterErr \/ FreshBackfill

\* the by-ID records of txs at height h, the by-height record of h and the
\* marker h are all read from (m, b)
HoldsWrite(m, b, h, txs) ==
    /\ MarkerFound(m, b) /\ Marker(m, b) = PutUint64(h)
    /\ GetByHeight(m, b, h) = [err |-> "nil", txs |-> txs]
    /\ \A i \in 1..Len(txs) : GetByTxID(m, b, ID(txs[i])) = [err |-> "nil", tx |-> txs[i], height |-> h]

\* C11: no step of Write changes the committed state; when Write(h, T)
\* returns nil the handle reads the by-ID records of T, the by-height record
\* of h and the marker h; the commit that follows makes the three committed
\* in one step, with the by-height record of every Write that returned nil
\* on this repository; a crash leaves the committed state as it was
StagedThenAtomic ==
    [][/\ (pc = "writing" \/ pc' = "writing") => base' = base
       /\ (pc = "writing" /\ pc' = "idle" /\ ret'.op = "Write" /\ ret'.err = "nil")
             => HoldsWrite(mem', base', ret'.height, ret'.txs)
       /\ (ret.op = "Write" /\ ret.err = "nil" /\ ret'.op = "Commit")
             => /\ HoldsWrite(NoKeys, base', ret.height, ret.txs)
                /\ \A h \in DOMAIN hist : GetByHeight(NoKeys, base', h) = [err |-> "nil", txs |-> hist[h]]
       /\ ret'.op = "Crash" => base' = base]_vars

\* a Write of two transactions returned nil on a repository whose
\* construction succeeded and was committed: its records and its marker are
\* in the committed state and nothing is staged
StagedThenAtomicWitness ==
    /\ ret.op = "Commit" /\ mem = NoKeys /\ ctorErr = "nil"
    /\ \E h \in DOMAIN hist :
          /\ Len(hist[h]) = 2 /\ Distinct(hist[h])
          /\ HoldsWrite(NoKeys, base, h, hist[h])

\* the transactions of the list txs
TxsOf(txs) == {txs[i] : i \in 1..Len(txs)}

\* in (m, b) a transaction has a by-ID record of height h exactly when the
\* by-height record of h lists it
IndexesAgree(m, b) ==
    \A t \in Tx, h \in Heights :
        (GetByTxID(m, b, ID(t)).err = "nil" /\ GetByTxID(m, b, ID(t)).height = h)
            <=> (GetByHeight(m, b, h).err = "nil" /\ t \in TxsOf(GetByHeight(m, b, h).txs))

\* C12: after a successful construction on an empty store and successful
\* Writes that obey the contract, whenever no Write is running, a transaction
\* has a by-ID record whose height is h if and only if the by-height record
\* of h lists it, through the handle and in the committed state, and h is
\* the height of the Write that was given the transaction
CrossIndexConsistency ==
    pc = "idle" =>
        /\ IndexesAgree(mem, base)
        /\ IndexesAgree(NoKeys, base)
        /\ \A t \in Tx : \A id \in KeysOf(mem, base, atomicTxIDDBPrefix) :
              id = ID(t) => (GetByTxID(mem, base, id).err = "nil" /\ GetByTxID(mem, base, id).height = lastCall[t])

\* two Writes at two heights have returned nil, each with transactions, one
\* of them committed before the other was called
CrossIndexConsistencyWitness ==
    /\ pc = "idle" /\ ret.op = "Write" /\ ret.err = "nil" /\ Len(ret.txs) = 2
    /\ \E h \in DOMAIN hist : h # ret.height /\ hist[h] # <<>>
                              /\ GetByHeight(NoKeys, base, h).err = "nil"
    /\ GetByHeight(NoKeys, base, ret.height).err = "ErrNotFound"

\* what the read that returned last gave its caller, against the store
ReadOutcome ==
    /\ ret.op = "GetByTxID" =>
          /\ ret.err = "ErrNotFound" => ~DbHas(mem, base, PrefixKey(atomicTxIDDBPrefix, ret.entry))
          /\ (~DbHas(mem, base, PrefixKey(atomicTxIDDBPrefix, ret.entry)) /\ ret.err # "ErrGet")
                => ret.err = "ErrNotFound"
          /\ (DbHas(mem, base, PrefixKey(atomicTxIDDBPrefix, ret.entry))
              /\ Len(DbGet(mem, base, PrefixKey(atomicTxIDDBPrefix, ret.entry))) < 8)
                => ret.err \notin {"nil", "ErrNotFound"}
    /\ ret.op = "GetByHeight" =>
          /\ ret.err = "ErrNotFound" => ~DbHas(mem, base, PrefixKey(atomicHeightTxDBPrefix, BigEndian(ret.height, 8)))
          /\ (~DbHas(mem, base, PrefixKey(atomicHeightTxDBPrefix, BigEndian(ret.height, 8))) /\ ret.err # "ErrGet")
                => ret.err = "ErrNotFound"
    /\ ret.err # "nil" => ret.txs = <<>>

\* C13: GetByTxID returns NotFound exactly when the by-ID record is absent,
\* GetByHeight exactly when the by-height record is absent (the Get of the
\* store reporting no other error); a by-ID record shorter than 8 bytes gives
\* an error that is not NotFound; a read that returns an error returns no
\* transaction; no read changes the staged or the committed store
ReadErrors ==
    [][(pc = "idle" /\ pc' = "idle" /\ ret'.op \in {"GetByTxID", "GetByHeight"})
          => (base' = base /\ mem' = mem /\ ReadOutcome')]_vars

\* GetByTxID has returned the error of a by-ID record of fewer than 8 bytes
ReadErrorsWitness ==
    /\ ret.op = "GetByTxID" /\ ret.err = "ErrTooShort"
    /\ DbHas(mem, base, PrefixKey(atomicTxIDDBPrefix, ret.entry))
    /\ Len(DbGet(mem, base, PrefixKey(atomicTxIDDBPrefix, ret.entry))) < 8
    /\ \E t \in Tx : ~DbHas(mem, base, PrefixKey(atomicTxIDDBPrefix, ID(t)))

\* a step of the running Write that is not the end of the process
WriteStep == pc = "writing" /\ pc' # "down"

\* what Get returns for the key k: no value, or the value
Value(m, b, k) == IF DbHas(m, b, k) THEN <<DbGet(m, b, k)>> ELSE <<>>

\* C14: a read placed between any two puts of a running Write(h, T) gets
\* whole records: every step of the Write leaves the by-height record of
\* every other height as it was, and leaves the by-ID record of every
\* identifier either as it was or such that GetByTxID returns (tx, h) for a
\* tx of T, the result it has after the Write
WholeRecords ==
    [][WriteStep =>
          /\ \A h \in Heights \ {w.height} :
                Value(mem', base', PrefixKey(atomicHeightTxDBPrefix, PutUint64(h)))
                    = Value(mem, base, PrefixKey(atomicHeightTxDBPrefix, PutUint64(h)))
          /\ \A t \in Tx :
                \/ Value(mem', base', PrefixKey(atomicTxIDDBPrefix, ID(t)))
                       = Value(mem, base, PrefixKey(atomicTxIDDBPrefix, ID(t)))
                \/ /\ t \in TxsOf(w.txs)
                   /\ GetByTxID(mem', base', ID(t)) = [err |-> "nil", tx |-> t, height |-> w.height]]_vars

\* a Write of two transactions has put the by-ID record of the first and not
\* yet that of the second, which still reads as before the Write, while
\* another height holds a by-height record
WholeRecordsWitness ==
    /\ pc = "writing" /\ Len(w.txs) = 2 /\ w.idx = 2 /\ w.txs[1] # w.txs[2]
    /\ GetByTxID(mem, base, ID(w.txs[1])) = [err |-> "nil", tx |-> w.txs[1], height |-> w.height]
    /\ GetByTxID(mem, base, ID(w.txs[2])).err = "nil"
    /\ GetByTxID(mem, base, ID(w.txs[2])).height # w.height
    /\ \E h \in Heights \ {w.height} : GetByHeight(mem, base, h).err = "nil" /\ GetByHeight(mem, base, h).txs # <<>>

\* the step in which initialize returns an error to the constructor
AbortStep == pc = "migrating" /\ pc' = "idle" /\ ret'.err # "nil"

\* C15: when the migration returns an error (here the error of a by-ID
\* record that does not decode, the store reporting none), the return
\* commits nothing, so the committed state is the one of the last checkpoint,
\* and the store handle keeps no staged write of the aborted run
AbortKeepsLastCheckpoint ==
    [][(AbortStep /\ NoStoreError') => (base' = base /\ mem' = NoKeys)]_vars

\* the part of C15 about the committed state: a step of a running migration
\* changes the committed state only as a checkpoint, which commits a cursor
\* and goes on, or as the completion; the return of an error commits nothing
AbortIssuesNoCommit ==
    [][(pc = "migrating" /\ base' # base)
          => \/ pc' = "migrating" /\ mem' = NoKeys /\ Len(Marker(NoKeys, base')) = 32
             \/ pc' = "idle" /\ ret'.err = "nil" /\ Len(Marker(NoKeys, base')) = 8]_vars

\* the payload of a by-ID value: what follows its two prefixes
PayloadLen(value) == Len(value) - (8 + 4)

RECURSIVE PayloadSum(_)
PayloadSum(entries) == IF entries = <<>> THEN 0 ELSE PayloadLen(Head(entries).value) + PayloadSum(Tail(entries))

Indexed(m, b, id) ==
    LET byID == GetByTxID(m, b, id)
        byHeight == GetByHeight(m, b, byID.height)
    IN byID.err = "nil" /\ byHeight.err = "nil" /\ byID.tx \in TxsOf(byHeight.txs)

\* the committed marker is not ahead of the committed height index
MarkerCovered ==
    MarkerFound(NoKeys, base) =>
        /\ Len(Marker(NoKeys, base)) = 32 =>
              \A id \in KeysOf(NoKeys, base, atomicTxIDDBPrefix) :
                  ~BytesLess(Marker(NoKeys, base), id) => Indexed(NoKeys, base, id)
        /\ Len(Marker(NoKeys, base)) = 8 =>
              \A id \in KeysOf(NoKeys, base, atomicTxIDDBPrefix) : Indexed(NoKeys, base, id)

\* C17: in every committed state (of a database whose by-ID records are
\* well-formed), when the marker is a cursor of 32 bytes every by-ID record
\* whose key is at or before the cursor is listed in the committed by-height
\* record of its height, and when the marker is the 8-byte value a migration
\* wrote every by-ID record is
CursorBehindIndex == WellFormed(NoKeys, base) => MarkerCovered

\* MarkerCovered for the behaviours in which the store reports no error
CursorBehindIndexNoStoreError == NoStoreError => MarkerCovered

\* the keys of the entries in ascending order, none twice
Ascending(entries) == \A i, j \in 1..Len(entries) : i < j => BytesLess(entries[i].key, entries[j].key)

\* the entries are the by-ID records of (m, b) whose key is in keys
EntriesOf(entries, m, b, keys) ==
    /\ {entries[i].key : i \in 1..Len(entries)} = keys
    /\ \A i \in 1..Len(entries) : entries[i].value = DbGet(m, b, PrefixKey(atomicTxIDDBPrefix, entries[i].key))

\* C18: a run that starts with a marker X of 32 bytes is given exactly the
\* by-ID entries whose key is X or after X, in ascending order of key, and a
\* run that starts without marker all of them; every pass of the loop takes
\* the first entry left and adds its transaction to the record of its
\* height; unless the store reports an error the run returns nil only when
\* no entry is left
ResumeOrder ==
    [][/\ (pc # "migrating" /\ pc' = "migrating") =>
             /\ Ascending(iter')
             /\ IF MarkerFound(mem, base)
                THEN /\ Len(Marker(mem, base)) = 32
                     /\ EntriesOf(iter', mem, base,
                            {k \in KeysOf(mem, base, atomicTxIDDBPrefix) : ~BytesLess(k, Marker(mem, base))})
                ELSE EntriesOf(iter', mem, base, KeysOf(mem, base, atomicTxIDDBPrefix))
       /\ (pc = "migrating" /\ pc' = "migrating") =>
             /\ iter # <<>> /\ iter' = Tail(iter)
             /\ lastTxID' = Head(iter).key
             /\ Indexed(mem', base', Head(iter).key)
       /\ (pc = "migrating" /\ pc' = "idle" /\ ret'.err = "nil" /\ NoStoreError') => iter = <<>>]_vars

\* a run that started at a cursor with an entry before it and an entry after
\* it has processed the entry of the cursor and has the later entry left
ResumeOrderWitness ==
    /\ pc = "migrating" /\ began = "cursor" /\ Len(iter) = 1
    /\ MarkerFound(NoKeys, base) /\ Marker(NoKeys, base) = lastTxID
    /\ BytesLess(lastTxID, iter[1].key)
    /\ \E id \in KeysOf(NoKeys, base, atomicTxIDDBPrefix) : BytesLess(id, lastTxID)

\* C19: when Write(h, T) returns nil, GetByHeight(h) returns exactly T,
\* whatever record h had before (the empty list for an empty T, not
\* NotFound), and the marker is h; no step of a Write changes the by-ID
\* record of a transaction that is not in its list; so, the store having
\* reported no error, after Write(h, T1) and Write(h, T2) GetByTxID still
\* returns (tx, h) for the tx of T1 that are not in T2
LastWriteWins ==
    [][/\ (pc = "writing" /\ pc' = "idle" /\ ret'.op = "Write" /\ ret'.err = "nil") =>
             /\ GetByHeight(mem', base', w.height) = [err |-> "nil", txs |-> w.txs]
             /\ Marker(mem', base') = PutUint64(w.height)
       /\ WriteStep =>
             \A t \in Tx \ TxsOf(w.txs) :
                 Value(mem', base', PrefixKey(atomicTxIDDBPrefix, ID(t)))
                     = Value(mem, base, PrefixKey(atomicTxIDDBPrefix, ID(t)))
       /\ (pc' = "idle" /\ ret'.op = "Write" /\ NoStoreError') =>
             \A t \in Tx : lastCall'[t] # -1 =>
                 GetByTxID(mem', base', ID(t)) = [err |-> "nil", tx |-> t, height |-> lastCall'[t]]]_vars

\* on a database that was empty, a second Write at a height has returned nil
\* with a list that lacks a transaction of the first: the by-height record
\* is the second list and the by-ID record of that transaction remains
LastWriteWinsWitness ==
    /\ pc = "idle" /\ ret.op = "Write" /\ ret.err = "nil" /\ ret.txs # <<>>
    /\ \E t \in Tx : ~DbHas(mem, base, PrefixKey(atomicTxIDDBPrefix, ID(t)))
    /\ GetByHeight(mem, base, ret.height).txs = ret.txs
    /\ \E t \in Tx \ TxsOf(ret.txs) :
          /\ lastCall[t] = ret.height
          /\ GetByTxID(mem, base, ID(t)) = [err |-> "nil", tx |-> t, height |-> ret.height]

\* the by-ID records of txs at height h and the by-height record of h are
\* among the staged writes m
StagedRecords(m, h, txs) ==
    /\ Value(m, NoKeys, PrefixKey(atomicHeightTxDBPrefix, PutUint64(h))) = <<MarshalTxs(txs)>>
    /\ \A i \in 1..Len(txs) :
          Value(m, NoKeys, PrefixKey(atomicTxIDDBPrefix, ID(txs[i])))
              = <<PackHeightTx(PutUint64(h), MarshalTx(txs[i]))>>

\* C20: a step of Write(h, T) after which the Write is still running leaves
\* the marker as it was; the step that returns nil sets the marker to h, the
\* by-ID records of T and the by-height record of h being staged already;
\* the step that returns an error leaves the marker and every staged write
\* as they were
MarkerWrittenLast ==
    [][/\ (WriteStep /\ pc' = "writing") =>
             Value(mem', base', maxIndexedHeightKey) = Value(mem, base, maxIndexedHeightKey)
       /\ (WriteStep /\ pc' = "idle" /\ ret'.err = "nil") =>
             /\ StagedRecords(mem, w.height, w.txs)
             /\ mem' = DbPut(mem, maxIndexedHeightKey, PutUint64(w.height))
       /\ (WriteStep /\ pc' = "idle" /\ ret'.err # "nil") => (mem' = mem /\ base' = base)]_vars

\* a Write of two transactions has returned an error after it staged the
\* by-ID record of the first: the record is staged still and the marker is
\* not the height of the Write
MarkerWrittenLastWitness ==
    /\ pc = "idle" /\ ret.op = "Write" /\ ret.err # "nil" /\ Len(ret.txs) = 2
    /\ Value(mem, NoKeys, PrefixKey(atomicTxIDDBPrefix, ID(ret.txs[1])))
          = <<PackHeightTx(PutUint64(ret.height), MarshalTx(ret.txs[1]))>>
    /\ MarkerFound(mem, base) /\ Marker(mem, base) # PutUint64(ret.height)

\* C21: in every step the committed marker stays absent or becomes a value
\* of 8 or 32 bytes when it was absent, becomes a cursor that is not before
\* it in key order or a value of 8 bytes when it was a cursor of 32 bytes,
\* and stays a value of 8 bytes when it was one; and a construction that
\* starts when the committed marker has 8 bytes runs no migration and
\* changes neither the staged nor the committed store
MarkerForward ==
    [][LET cur == Value(NoKeys, base, maxIndexedHeightKey)
           nxt == Value(NoKeys, base', maxIndexedHeightKey)
       IN /\ cur = <<>> => (nxt = <<>> \/ Len(nxt[1]) \in {8, 32})
          /\ (cur # <<>> /\ Len(cur[1]) = 32) =>
                /\ nxt # <<>>
                /\ \/ Len(nxt[1]) = 8
                   \/ Len(nxt[1]) = 32 /\ ~BytesLess(nxt[1], cur[1])
          /\ (cur # <<>> /\ Len(cur[1]) = 8) =>
                /\ nxt # <<>> /\ Len(nxt[1]) = 8
                /\ (pc \in {"down", "idle"} /\ runsLeft' = runsLeft - 1) =>
                      (pc' = "idle" /\ ~ret'.migrated /\ iter' = <<>> /\ base' = base /\ mem' = mem)]_vars

\* a run that started at the cursor of an earlier checkpoint has committed a
\* checkpoint of its own, at a later entry
MarkerForwardWitness ==
    /\ pc = "migrating" /\ began = "cursor" /\ iter = <<>>
    /\ mem = NoKeys /\ pendingBytesApproximation = 0
    /\ MarkerFound(NoKeys, base) /\ Len(Marker(NoKeys, base)) = 32 /\ Marker(NoKeys, base) = lastTxID
    /\ Cardinality(KeysOf(NoKeys, base, atomicTxIDDBPrefix)) = NumTx

\* the identifiers of the list are in strictly ascending key order
AscendingIDs(txs) == \A i, j \in 1..Len(txs) : i < j => BytesLess(ID(txs[i]), ID(txs[j]))

\* the staged writes of one uninterrupted migration over the by-ID records
\* of (mem, base) alone, the by-height records and the marker erased
MigratedFromByID == MigrateEntries(NewIteratorWithStart(mem, base, <<>>), NoKeys)

\* C22: after a successful construction on an empty store and any sequence
\* of successful Writes that obey the contract, an uninterrupted migration
\* over the by-ID records alone gives, for every height written with at
\* least one transaction, a by-height record with the same set of
\* identifiers as GetByHeight returns after the Writes, in ascending
\* identifier order; it decodes from every by-ID record the transaction
\* GetByTxID decodes from it; and it gives no by-height record for a height
\* written with an empty list or not written
MigrationAgreesWithWrite ==
    pc = "idle" =>
        LET entries == NewIteratorWithStart(mem, base, <<>>)
            mig == MigratedFromByID
        IN /\ \A h \in Heights :
                 LET written == GetByHeight(mem, base, h)
                     migrated == GetByHeight(mig, NoKeys, h)
                 IN IF h \in DOMAIN hist /\ hist[h] # <<>>
                    THEN /\ written.err = "nil" /\ migrated.err = "nil"
                         /\ IDsOf(migrated.txs) = IDsOf(written.txs)
                         /\ IDsOf(written.txs) = IDsOf(hist[h])
                         /\ Len(migrated.txs) = Len(written.txs)
                         /\ AscendingIDs(migrated.txs)
                    ELSE migrated.err = "ErrNotFound"
           /\ \A i \in 1..Len(entries) :
                 LET decoded == ExtractAtomicTx(SliceFrom(entries[i].value, LongLen + IntLen))
                     got == GetByTxID(mem, base, entries[i].key)
                 IN decoded.err = "nil" /\ got.err = "nil" /\ decoded.tx = got.tx
                    /\ Uint(SliceTo(entries[i].value, LongLen)) = got.height

\* two Writes have returned nil, one with two transactions that the
\* migration lists in another order than Write did, one with an empty list,
\* whose by-height record the migration does not produce
MigrationAgreesWithWriteWitness ==
    /\ pc = "idle" /\ ret.op = "Write" /\ ret.err = "nil"
    /\ \E h \in DOMAIN hist :
          /\ Len(hist[h]) = 2
          /\ GetByHeight(MigratedFromByID, NoKeys, h).txs # GetByHeight(mem, base, h).txs
    /\ \E h \in DOMAIN hist :
          /\ hist[h] = <<>>
          /\ GetByHeight(mem, base, h).err = "nil"
          /\ GetByHeight(MigratedFromByID, NoKeys, h).err = "ErrNotFound"

\* the steps SpecLive is fair to are the steps of the actions: a loop pass
\* is a step of ProcessEntry and a restart is a step of New on a node that
\* is down, and conversely
FairStepsAreActions ==
    [][/\ LoopPass <=> ProcessEntry("none")
       /\ Restart <=> (pc = "down" /\ \E height \in Heights : New(height, FALSE))]_vars

\* a construction has returned nil and the committed marker has 8 bytes
ReturnedDone ==
    /\ pc = "idle" /\ ret.op = "New" /\ ret.err = "nil" /\ ctorErr = "nil"
    /\ MarkerFound(NoKeys, base) /\ Len(Marker(NoKeys, base)) = 8

\* C23: over well-formed by-ID records and a store that reports no error,
\* when the node is started again after every process stop and stops
\* finitely often: a running construction leads to the end of the run;
\* every pass of its loop takes the first entry left, exactly the entries
\* at or after its cursor being there at its start, and the run returns
\* only with no entry left, and then nil with a committed marker of 8
\* bytes; eventually a construction has returned so; and a construction
\* that returned so gives a repository, whose Write is accepted
MigrationCompletes ==
    /\ (pc = "migrating") ~> (pc # "migrating")
    /\ <>ReturnedDone
    /\ [][(pc # "migrating" /\ pc' = "migrating") =>
            iter' = NewIteratorWithStart(NoKeys, base, IF MarkerFound(NoKeys, base) THEN Marker(NoKeys, base) ELSE <<>>)]_vars
    /\ [][(pc = "migrating" /\ pc' = "migrating") => (iter # <<>> /\ iter' = Tail(iter))]_vars
    /\ [][(pc = "migrating" /\ pc' = "idle") => (iter = <<>> /\ ReturnedDone')]_vars
    /\ [](ReturnedDone => (repo = "repo" /\ (writesLeft > 0 => pc = "idle")))

\* a construction that was started again after a process stop, from the
\* cursor of a checkpoint, has returned nil with the committed marker of 8
\* bytes over by-ID records of all transactions
MigrationCompletesWitness ==
    /\ ReturnedDone /\ ret.migrated /\ ret.began = "cursor" /\ repo = "repo"
    /\ Cardinality(KeysOf(NoKeys, base, atomicTxIDDBPrefix)) = NumTx

====
